---- MODULE Spec2Model ----
(***************************************************************************)
(* Layered settings resolution (py_layered_settings).                      *)
(*                                                                         *)
(* The Layer table and the LayeredSetting table are the persistent state;  *)
(* LayeredSetting.get_setting walks them.  Every invocation of             *)
(* get_setting is one step of the model: the recursive calls of the source *)
(* are tail calls (`return LayeredSetting.get_setting(...)`), so the       *)
(* arguments of the running invocation are the whole call state.           *)
(*                                                                         *)
(* An Optional[int] is a sequence of length at most one: None is << >>,    *)
(* the integer n is <<n>>.  Python's truthiness test of such a value       *)
(* (`if entity_id:`) is Truthy.                                            *)
(***************************************************************************)
EXTENDS Integers, Sequences, FiniteSets, TLC

\* ---------------------------------------------------------------- bounds
\* Longest parent_ids list of a call.
MaxParents == 2

\* Layer ids (tests: SYSTEM = 1, ACCOUNT = 2, USER = 3), entity ids (0 is
\* the falsy integer), the names stored (tests: "lights", "exclusive4") and
\* the names asked for, and the ids of the setting rows.
LayerIds == {1, 2, 3}
EntityIds == {0, 1}
Names == {"lights", "exclusive4"}
Requested == {"lights"}
SettingIds == {1}

\* ------------------------------------------------------- optional values
None == << >>

Some(x) == <<x>>

Optional(S) == {None} \cup {Some(x) : x \in S}

\* bool(x) of an Optional[int]: None and 0 are falsy.
Truthy(x) == x # None /\ x[1] # 0

\* All lists over S of length at most n (parent_ids).
ListsUpTo(S, n) == UNION {[1..k -> S] : k \in 0..n}

VARIABLES
    layers,     \* settings__layer rows: [id, fallback_id]
    settings,   \* settings__layered_setting rows: [id, name, layer_id, entity_id]
    pc,         \* "idle": no call running; "call": an invocation of
                \* get_setting is about to run; "done": the call returned
    req,        \* arguments of the outermost call
    args,       \* arguments of the running invocation, and how it was
                \* entered: "call", "fallback" (line 79) or "default" (line 91)
    result,     \* the returned value: None or Some(row)
    lookups,    \* the setting queries executed so far, one per invocation
    layerReads, \* the Layer queries executed so far, in order
    calls,      \* number of invocations of get_setting so far
    prev,       \* the arguments and the returned value of the last call made
                \* since the tables were last written, for the caller who
                \* repeats it
    session     \* the block `with dbsession_ctx(...)` of db.py: its position,
                \* auto_commit, the committed tables and what it called

vars == <<layers, settings, pc, req, args, result, lookups, layerReads, calls,
          prev, session>>

aux == <<prev, session>>

db == <<layers, settings>>

callState == <<pc, req, args, result, lookups, layerReads, calls>>

NoArgs == [name |-> "", layer_id |-> 0, entity_id |-> None,
           parent_ids |-> << >>, via |-> "call"]

\* No call has been made since the tables were last written.
NoPrev == [made |-> FALSE, req |-> NoArgs, result |-> None]

\* No `with dbsession_ctx(...)` block is open, and the database is empty.
\*   at          "none"; "body": inside the with block; "resumed": the
\*               generator resumed after the yield; "except": in the except
\*               clause; "closed": the with statement was left
\*   committed   the tables as last committed
\*   entry       the committed tables when the block was entered
\*   commits, rollbacks   calls of session.commit() / session.rollback()
\*   raised      what raised in the block: "none", "body" or "commit"
\*   discarded   whether the rollback discarded pending writes
\*   propagated  whether the with statement raised to its caller
NoSession ==
    [at |-> "none", auto_commit |-> TRUE,
     committed |-> <<{}, {}>>, entry |-> <<{}, {}>>,
     commits |-> 0, rollbacks |-> 0, raised |-> "none",
     discarded |-> FALSE, propagated |-> FALSE]

\* -------------------------------------------------------------- queries
\* `if entity_id:` entity_id == entity_id, `else:` entity_id IS NULL
EntityClause(entity_id) == IF Truthy(entity_id) THEN entity_id ELSE None

\* Mutant of Where: the query without its name clause.
WhereAnyName(name, layer_id, entity_id) ==
    {r \in settings : /\ r.layer_id = layer_id
                      /\ r.entity_id = EntityClause(entity_id)}

\* select(LayeredSetting).where(name == name, layer_id == layer_id, <clause>)
Where(name, layer_id, entity_id) ==
    {r \in settings : /\ r.name = name
                      /\ r.layer_id = layer_id
                      /\ r.entity_id = EntityClause(entity_id)}

\* select(Layer).where(Layer.id == layer_id)
LayerById(layer_id) == {l \in layers : l.id = layer_id}

\* select(Layer).where(Layer.fallback_id.is_(None))
DefaultLayers == {l \in layers : l.fallback_id = None}

\* `if not result and (entity_id or parent_ids)`, result being None
Continues(a) == Truthy(a.entity_id) \/ a.parent_ids # << >>

\* `if parent_ids:` ... `if layer and layer.fallback_id:`
FallbackLayers(a) ==
    IF a.parent_ids = << >> THEN {}
    ELSE {l \in LayerById(a.layer_id) : Truthy(l.fallback_id)}

\* ------------------------------------------------------------------ init
Init ==
    /\ layers = {}
    /\ settings = {}
    /\ pc = "idle"
    /\ req = NoArgs
    /\ args = NoArgs
    /\ result = None
    /\ lookups = << >>
    /\ layerReads = << >>
    /\ calls = 0
    /\ prev = NoPrev
    /\ session = NoSession

\* ------------------------------------------------- external administration
\* dbsession.add(Layer(id=..., fallback_id=...)): the id is the next
\* primary key; the foreign key of fallback_id is not enforced by SQLite, so
\* fallback_id may name a layer added later, or none.
AddLayer(fallback_id) ==
    /\ pc = "idle"
    /\ Cardinality(layers) + 1 \in LayerIds
    /\ fallback_id # Some(Cardinality(layers) + 1)
    /\ layers' = layers \cup {[id |-> Cardinality(layers) + 1,
                               fallback_id |-> fallback_id]}
    /\ prev' = NoPrev
    /\ UNCHANGED <<settings, callState, session>>

\* dbsession.add(LayeredSetting(name=..., layer_id=..., entity_id=...)): the
\* id is the next primary key; nothing is unique on (name, layer, entity).
AddSetting(name, layer_id, entity_id) ==
    /\ pc = "idle"
    /\ Cardinality(settings) + 1 \in SettingIds
    /\ settings' = settings \cup {[id |-> Cardinality(settings) + 1,
                                   name |-> name,
                                   layer_id |-> layer_id,
                                   entity_id |-> entity_id]}
    /\ prev' = NoPrev
    /\ UNCHANGED <<layers, callState, session>>

\* ------------------------------------------------------------ get_setting
\* The caller's call: LayeredSetting.get_setting(dbsession, name, layer_id,
\* entity_id, parent_ids).  parent_ids = None behaves as the empty list.
Call(name, layer_id, entity_id, parent_ids) ==
    /\ pc = "idle"
    /\ pc' = "call"
    /\ req' = [name |-> name, layer_id |-> layer_id, entity_id |-> entity_id,
               parent_ids |-> parent_ids, via |-> "call"]
    /\ args' = req'
    /\ result' = None
    /\ lookups' = << >>
    /\ layerReads' = << >>
    /\ calls' = 1
    /\ UNCHANGED <<db, aux>>

\* The query of the running invocation, added to the log: the layer and the
\* entity_id it was called with, the entity clause it put in the query, how
\* many parent ids it still had, and how it was entered.
Logged(a) ==
    Append(lookups, [layer_id |-> a.layer_id,
                     entity_id |-> a.entity_id,
                     clause |-> EntityClause(a.entity_id),
                     parents |-> Len(a.parent_ids),
                     via |-> a.via])

\* result = dbsession.scalars(stmt).first() is a row: `return result`.
\* Without ORDER BY, first() may be any of the matching rows.
Hit ==
    /\ pc = "call"
    /\ \E r \in Where(args.name, args.layer_id, args.entity_id) :
          result' = Some(r)
    /\ lookups' = Logged(args)
    /\ pc' = "done"
    /\ UNCHANGED <<db, req, args, layerReads, calls, aux>>

\* No row, and neither entity_id nor parent_ids is truthy: `return result`.
MissReturn ==
    /\ pc = "call"
    /\ Where(args.name, args.layer_id, args.entity_id) = {}
    /\ ~Continues(args)
    /\ result' = None
    /\ lookups' = Logged(args)
    /\ pc' = "done"
    /\ UNCHANGED <<db, req, args, layerReads, calls, aux>>

\* Mutant of Recurse: the recursive call is given the whole parent_ids again.
RecurseKeepsParents ==
    /\ pc = "call"
    /\ Where(args.name, args.layer_id, args.entity_id) = {}
    /\ Continues(args)
    /\ \E l \in FallbackLayers(args) :
          args' = [name |-> args.name,
                   layer_id |-> l.fallback_id[1],
                   entity_id |-> Head(args.parent_ids),
                   parent_ids |-> args.parent_ids,
                   via |-> "fallback"]
    /\ lookups' = Logged(args)
    /\ layerReads' = Append(layerReads, "by_id")
    /\ calls' = calls + 1
    /\ UNCHANGED <<db, pc, req, result, aux>>

\* No row, parent_ids is not empty and the layer has a fallback: the call of
\* get_setting on the fallback layer with the first parent id.
Recurse ==
    /\ pc = "call"
    /\ Where(args.name, args.layer_id, args.entity_id) = {}
    /\ Continues(args)
    /\ \E l \in FallbackLayers(args) :
          args' = [name |-> args.name,
                   layer_id |-> l.fallback_id[1],
                   entity_id |-> Head(args.parent_ids),
                   parent_ids |-> Tail(args.parent_ids),
                   via |-> "fallback"]
    /\ lookups' = Logged(args)
    /\ layerReads' = Append(layerReads, "by_id")
    /\ calls' = calls + 1
    /\ UNCHANGED <<db, pc, req, result, aux>>

\* The Layer queries on the way to the default layer: the layer by id when
\* parent_ids is not empty (line 72), then the layer without fallback.
ReadsUntilDefault(a) ==
    IF a.parent_ids = << >> THEN Append(layerReads, "default")
    ELSE layerReads \o <<"by_id", "default">>

\* "it's the last/default layer": the call of get_setting on a layer
\* without fallback, with neither entity_id nor parent_ids.  first() may be
\* any of the layers without fallback.
DefaultCall ==
    /\ pc = "call"
    /\ Where(args.name, args.layer_id, args.entity_id) = {}
    /\ Continues(args)
    /\ FallbackLayers(args) = {}
    /\ \E d \in DefaultLayers :
          args' = [name |-> args.name, layer_id |-> d.id,
                   entity_id |-> None, parent_ids |-> << >>,
                   via |-> "default"]
    /\ lookups' = Logged(args)
    /\ layerReads' = ReadsUntilDefault(args)
    /\ calls' = calls + 1
    /\ UNCHANGED <<db, pc, req, result, aux>>

\* Mutant of DefaultMissing: the missing default layer is created.
DefaultMissingCreates ==
    /\ pc = "call"
    /\ Where(args.name, args.layer_id, args.entity_id) = {}
    /\ Continues(args)
    /\ FallbackLayers(args) = {}
    /\ DefaultLayers = {}
    /\ layers' = layers \cup {[id |-> Cardinality(layers) + 1,
                               fallback_id |-> None]}
    /\ result' = None
    /\ lookups' = Logged(args)
    /\ layerReads' = ReadsUntilDefault(args)
    /\ pc' = "done"
    /\ UNCHANGED <<settings, req, args, calls, aux>>

\* No layer without fallback: `return None`.
DefaultMissing ==
    /\ pc = "call"
    /\ Where(args.name, args.layer_id, args.entity_id) = {}
    /\ Continues(args)
    /\ FallbackLayers(args) = {}
    /\ DefaultLayers = {}
    /\ result' = None
    /\ lookups' = Logged(args)
    /\ layerReads' = ReadsUntilDefault(args)
    /\ pc' = "done"
    /\ UNCHANGED <<db, req, args, calls, aux>>

\* The caller takes the returned value; the next call or administrative
\* write may follow.
Return ==
    /\ pc = "done"
    /\ pc' = "idle"
    /\ req' = NoArgs
    /\ args' = NoArgs
    /\ result' = None
    /\ lookups' = << >>
    /\ layerReads' = << >>
    /\ calls' = 0
    /\ UNCHANGED <<db, aux>>

\* One invocation of get_setting.
GetSetting == Hit \/ MissReturn \/ Recurse \/ DefaultCall \/ DefaultMissing

Next ==
    \/ \E f \in Optional(LayerIds) : AddLayer(f)
    \/ \E n \in Names, l \in LayerIds, e \in Optional(EntityIds) :
          AddSetting(n, l, e)
    \/ \E n \in Requested, l \in LayerIds, e \in Optional(EntityIds),
          p \in ListsUpTo(Optional(EntityIds), MaxParents) : Call(n, l, e, p)
    \/ Hit
    \/ MissReturn
    \/ Recurse
    \/ DefaultCall
    \/ DefaultMissing
    \/ Return

Spec == Init /\ [][Next]_vars

\* ------------------------------------------------------ the repeated call
\* dbsession.add of one more row at the (name, layer, entity) of a stored
\* row: the table has no unique constraint on them.
AddDuplicate ==
    /\ pc = "idle"
    /\ Cardinality(settings) \in SettingIds
    /\ \E r \in settings :
          settings' = settings \cup {[id |-> Cardinality(settings) + 1,
                                      name |-> r.name,
                                      layer_id |-> r.layer_id,
                                      entity_id |-> r.entity_id]}
    /\ prev' = NoPrev
    /\ UNCHANGED <<layers, callState, session>>

\* The first call since the tables were written.
FirstCall(name, layer_id, entity_id, parent_ids) ==
    /\ ~prev.made
    /\ Call(name, layer_id, entity_id, parent_ids)

\* The caller keeps the returned value and what it asked.
ReturnRemember ==
    /\ pc = "done"
    /\ pc' = "idle"
    /\ prev' = [made |-> TRUE, req |-> req, result |-> result]
    /\ req' = NoArgs
    /\ args' = NoArgs
    /\ result' = None
    /\ lookups' = << >>
    /\ layerReads' = << >>
    /\ calls' = 0
    /\ UNCHANGED <<db, session>>

\* The same call again, the tables being as they were.
CallAgain ==
    /\ prev.made
    /\ Call(prev.req.name, prev.req.layer_id, prev.req.entity_id,
            prev.req.parent_ids)

NextRepeat ==
    \/ \E f \in Optional(LayerIds) : AddLayer(f)
    \/ \E n \in Names, l \in LayerIds, e \in Optional(EntityIds) :
          AddSetting(n, l, e)
    \/ AddDuplicate
    \/ \E n \in Requested, l \in LayerIds, e \in Optional(EntityIds),
          p \in ListsUpTo(Optional(EntityIds), MaxParents) :
             FirstCall(n, l, e, p)
    \/ CallAgain
    \/ Hit
    \/ MissReturn
    \/ Recurse
    \/ DefaultCall
    \/ DefaultMissing
    \/ ReturnRemember

SpecRepeat == Init /\ [][NextRepeat]_vars

\* ------------------------------------- MultilayerSetting (single parent id)
\* The deepest recursion the interpreter allows (Python raises
\* RecursionError beyond its recursion limit).
RecursionLimit == 5

\* `if not result and (entity_id or parent_id)`, result being None
MultiContinues(a) == Truthy(a.entity_id) \/ Truthy(a.parent_id)

\* `if parent_id:` ... `if layer and layer.fallback_id:`
MultiFallbackLayers(a) ==
    IF ~Truthy(a.parent_id) THEN {}
    ELSE {l \in LayerById(a.layer_id) : Truthy(l.fallback_id)}

\* The query of the running invocation of _get_setting, added to the log.
MultiLogged(a) ==
    Append(lookups, [layer_id |-> a.layer_id,
                     entity_id |-> a.entity_id,
                     clause |-> EntityClause(a.entity_id),
                     parent_id |-> a.parent_id,
                     via |-> a.via])

\* MultilayerSetting.get_setting(dbsession, name, layer_id, entity_id,
\* parent_id), which calls _get_setting with the same arguments.
MultiCall(name, layer_id, entity_id, parent_id) ==
    /\ pc = "idle"
    /\ pc' = "multi"
    /\ req' = [name |-> name, layer_id |-> layer_id, entity_id |-> entity_id,
               parent_id |-> parent_id, via |-> "call"]
    /\ args' = req'
    /\ result' = None
    /\ lookups' = << >>
    /\ layerReads' = << >>
    /\ calls' = 1
    /\ UNCHANGED <<db, aux>>

\* first() is a row: `return result`.
MultiHit ==
    /\ pc = "multi"
    /\ \E r \in Where(args.name, args.layer_id, args.entity_id) :
          result' = Some(r)
    /\ lookups' = MultiLogged(args)
    /\ pc' = "done"
    /\ UNCHANGED <<db, req, args, layerReads, calls, aux>>

\* No row, and neither entity_id nor parent_id is truthy: `return result`.
MultiMissReturn ==
    /\ pc = "multi"
    /\ Where(args.name, args.layer_id, args.entity_id) = {}
    /\ ~MultiContinues(args)
    /\ result' = None
    /\ lookups' = MultiLogged(args)
    /\ pc' = "done"
    /\ UNCHANGED <<db, req, args, layerReads, calls, aux>>

\* No row, parent_id is truthy and the layer has a fallback: the call of
\* _get_setting on the fallback layer with entity_id = parent_id and the
\* same parent_id again.
MultiRecurse ==
    /\ pc = "multi"
    /\ calls < RecursionLimit
    /\ Where(args.name, args.layer_id, args.entity_id) = {}
    /\ MultiContinues(args)
    /\ \E l \in MultiFallbackLayers(args) :
          args' = [name |-> args.name,
                   layer_id |-> l.fallback_id[1],
                   entity_id |-> args.parent_id,
                   parent_id |-> args.parent_id,
                   via |-> "fallback"]
    /\ lookups' = MultiLogged(args)
    /\ layerReads' = Append(layerReads, "by_id")
    /\ calls' = calls + 1
    /\ UNCHANGED <<db, pc, req, result, aux>>

\* The same, at the recursion limit: the call raises RecursionError.
MultiRecursionError ==
    /\ pc = "multi"
    /\ calls >= RecursionLimit
    /\ Where(args.name, args.layer_id, args.entity_id) = {}
    /\ MultiContinues(args)
    /\ MultiFallbackLayers(args) # {}
    /\ result' = None
    /\ lookups' = MultiLogged(args)
    /\ layerReads' = Append(layerReads, "by_id")
    /\ pc' = "raised"
    /\ UNCHANGED <<db, req, args, calls, aux>>

\* The Layer queries on the way to the default layer.
MultiReadsUntilDefault(a) ==
    IF ~Truthy(a.parent_id) THEN Append(layerReads, "default")
    ELSE layerReads \o <<"by_id", "default">>

\* "it's the last/default layer": the call of _get_setting on a layer
\* without fallback, with neither entity_id nor parent_id.
MultiDefaultCall ==
    /\ pc = "multi"
    /\ Where(args.name, args.layer_id, args.entity_id) = {}
    /\ MultiContinues(args)
    /\ MultiFallbackLayers(args) = {}
    /\ \E d \in DefaultLayers :
          args' = [name |-> args.name, layer_id |-> d.id,
                   entity_id |-> None, parent_id |-> None,
                   via |-> "default"]
    /\ lookups' = MultiLogged(args)
    /\ layerReads' = MultiReadsUntilDefault(args)
    /\ calls' = calls + 1
    /\ UNCHANGED <<db, pc, req, result, aux>>

\* No layer without fallback: `return None`.
MultiDefaultMissing ==
    /\ pc = "multi"
    /\ Where(args.name, args.layer_id, args.entity_id) = {}
    /\ MultiContinues(args)
    /\ MultiFallbackLayers(args) = {}
    /\ DefaultLayers = {}
    /\ result' = None
    /\ lookups' = MultiLogged(args)
    /\ layerReads' = MultiReadsUntilDefault(args)
    /\ pc' = "done"
    /\ UNCHANGED <<db, req, args, calls, aux>>

\* The caller takes the returned value or the exception.
MultiReturn ==
    /\ pc \in {"done", "raised"}
    /\ pc' = "idle"
    /\ req' = NoArgs
    /\ args' = NoArgs
    /\ result' = None
    /\ lookups' = << >>
    /\ layerReads' = << >>
    /\ calls' = 0
    /\ UNCHANGED <<db, aux>>

NextMulti ==
    \/ \E f \in Optional(LayerIds) : AddLayer(f)
    \/ \E n \in Names, l \in LayerIds, e \in Optional(EntityIds) :
          AddSetting(n, l, e)
    \/ \E n \in Requested, l \in LayerIds, e \in Optional(EntityIds),
          p \in Optional(EntityIds) : MultiCall(n, l, e, p)
    \/ MultiHit
    \/ MultiMissReturn
    \/ MultiRecurse
    \/ MultiRecursionError
    \/ MultiDefaultCall
    \/ MultiDefaultMissing
    \/ MultiReturn

SpecMulti == Init /\ [][NextMulti]_vars

\* ------------------------------------------------------------ dbsession_ctx
\* `with dbsession_ctx(session_factory, auto_commit) as session:` up to the
\* yield: session_factory() opens a session, which sees the committed tables.
CtxEnter(auto_commit) ==
    /\ pc = "idle"
    /\ session.at \in {"none", "closed"}
    /\ layers' = session.committed[1]
    /\ settings' = session.committed[2]
    /\ session' = [at |-> "body", auto_commit |-> auto_commit,
                   committed |-> session.committed,
                   entry |-> session.committed,
                   commits |-> 0, rollbacks |-> 0, raised |-> "none",
                   discarded |-> FALSE, propagated |-> FALSE]
    /\ UNCHANGED <<callState, prev>>

\* The body adds a layer to the session.
CtxAddLayer(fallback_id) ==
    /\ session.at = "body"
    /\ AddLayer(fallback_id)

\* The body adds a setting to the session.
CtxAddSetting(name, layer_id, entity_id) ==
    /\ session.at = "body"
    /\ AddSetting(name, layer_id, entity_id)

\* The body raises, and no clause of the generator catches what is thrown
\* into it at the yield: the with statement raises to its caller.
BodyRaisesUncaught ==
    /\ session.at = "body"
    /\ session' = [session EXCEPT !.at = "closed", !.raised = "body",
                                  !.propagated = TRUE]
    /\ UNCHANGED <<db, callState, prev>>

\* The body raises: the exception is thrown into the generator at the yield
\* and the bare `except:` takes it.
BodyRaises ==
    /\ session.at = "body"
    /\ session' = [session EXCEPT !.at = "except", !.raised = "body"]
    /\ UNCHANGED <<db, callState, prev>>

\* The body completes: the generator resumes after the yield.
BodyCompletes ==
    /\ session.at = "body"
    /\ session' = [session EXCEPT !.at = "resumed"]
    /\ UNCHANGED <<db, callState, prev>>

\* `if auto_commit:` is false: the generator ends, nothing is committed.
NoCommit ==
    /\ session.at = "resumed"
    /\ ~session.auto_commit
    /\ session' = [session EXCEPT !.at = "closed"]
    /\ UNCHANGED <<db, callState, prev>>

\* `if auto_commit: session.commit()`, and the commit succeeds.
CommitOk ==
    /\ session.at = "resumed"
    /\ session.auto_commit
    /\ session' = [session EXCEPT !.at = "closed",
                                  !.commits = @ + 1,
                                  !.committed = <<layers, settings>>]
    /\ UNCHANGED <<db, callState, prev>>

\* `if auto_commit: session.commit()`, and the commit raises inside the try:
\* nothing is committed and the bare `except:` takes the exception.
CommitRaises ==
    /\ session.at = "resumed"
    /\ session.auto_commit
    /\ session' = [session EXCEPT !.at = "except",
                                  !.commits = @ + 1,
                                  !.raised = "commit"]
    /\ UNCHANGED <<db, callState, prev>>

\* `except: session.rollback()`: the pending writes are discarded; the
\* clause does not raise again, so the generator ends and the with statement
\* is left without an exception.
Rollback ==
    /\ session.at = "except"
    /\ layers' = session.committed[1]
    /\ settings' = session.committed[2]
    /\ session' = [session EXCEPT !.at = "closed",
                                  !.rollbacks = @ + 1,
                                  !.discarded = (<<layers, settings>> # session.committed),
                                  !.propagated = FALSE]
    /\ UNCHANGED <<callState, prev>>

NextCtx ==
    \/ \E b \in BOOLEAN : CtxEnter(b)
    \/ \E f \in Optional(LayerIds) : CtxAddLayer(f)
    \/ \E n \in Names, l \in LayerIds, e \in Optional(EntityIds) :
          CtxAddSetting(n, l, e)
    \/ BodyRaises
    \/ BodyCompletes
    \/ NoCommit
    \/ CommitOk
    \/ CommitRaises
    \/ Rollback

SpecCtx == Init /\ [][NextCtx]_vars

\* ---------------------------------------------------------------- claims
\* The rows stored under the requested name.
NameRows == {r \in settings : r.name = req.name}

\* The rows stored at exactly (name, layer_id, entity_id): a null entity_id
\* is a value of its own.
ExactRows(name, layer_id, entity_id) ==
    {r \in settings : /\ r.name = name
                      /\ r.layer_id = layer_id
                      /\ r.entity_id = entity_id}

RootIds == {d.id : d \in DefaultLayers}

LayerExists(id) == LayerById(id) # {}

UniqueRoot == Cardinality(DefaultLayers) = 1

\* Query i of the finished call found no row.
Missed(i) == i < Len(lookups) \/ result = None

\* The layers from id along fallback_id, at most n steps far.
RECURSIVE ChainFrom(_, _)
ChainFrom(id, n) ==
    IF n = 0 \/ \A l \in LayerById(id) : l.fallback_id = None
    THEN <<id>>
    ELSE <<id>> \o ChainFrom((CHOOSE l \in LayerById(id) : TRUE).fallback_id[1],
                             n - 1)

RequestChain == ChainFrom(req.layer_id, Cardinality(LayerIds))

AcyclicChain ==
    \A i, j \in 1..Len(RequestChain) : i # j => RequestChain[i] # RequestChain[j]

\* Step k of the lockstep order: (L0, e), (L1, a1), (L2, a2), ...
StepEntity(k) == IF k = 0 THEN req.entity_id ELSE req.parent_ids[k]

StepRows(k) == ExactRows(req.name, RequestChain[k + 1], StepEntity(k))

LockSteps ==
    {k \in 0..Len(req.parent_ids) : k + 1 <= Len(RequestChain)}

\* C1: a call whose exact (name, layer, entity) has a record returns that
\* record after the one query, reading no layer and no other setting.
C1_ExactRecordReturned ==
    (pc = "done" /\ ExactRows(req.name, req.layer_id, req.entity_id) # {})
        => /\ result # None
           /\ result[1] \in ExactRows(req.name, req.layer_id, req.entity_id)
           /\ Len(lookups) = 1
           /\ layerReads = << >>

\* C2: over an acyclic chain the call returns the first record in the order
\* (L0, e), (L1, a1), (L2, a2), ..., null entries included.
C2_NearestRecordWins ==
    (pc = "done" /\ AcyclicChain)
        => \A k \in LockSteps :
              (StepRows(k) # {} /\ \A j \in 0..(k - 1) : StepRows(j) = {})
                  => (result # None /\ result[1] \in StepRows(k))

\* C3: when the only records of the name are root-layer defaults, every call
\* on a layer of the table returns one, whatever its entity and ancestors.
C3_RootDefaultAlwaysReturned ==
    (/\ pc = "done"
     /\ UniqueRoot
     /\ LayerExists(req.layer_id)
     /\ NameRows # {}
     /\ \A r \in NameRows : r.entity_id = None /\ r.layer_id \in RootIds)
        => (result # None /\ result[1] \in NameRows)

\* C4: with no record of the requested name at any layer, every invocation
\* has a next step (nothing raises) and the call returns None.
C4_NotFoundWithoutRecord ==
    NameRows = {}
        => /\ pc = "call" => ENABLED GetSetting
           /\ pc = "done" => result = None

C4_Witness ==
    /\ pc = "done"
    /\ settings # {}
    /\ NameRows = {}
    /\ result = None
    /\ calls = Len(req.parent_ids) + 2
    /\ req.parent_ids # << >>

\* C5: with exactly one root, a query that misses with an entity id present
\* and no ancestor left at a layer that is not the root is followed by
\* exactly one more query, the root default (root layer, entity null).
C5_ShortCircuitToRoot ==
    (pc = "done" /\ UniqueRoot)
        => \A i \in 1..Len(lookups) :
              (/\ Missed(i)
               /\ lookups[i].entity_id # None
               /\ lookups[i].parents = 0
               /\ LayerExists(lookups[i].layer_id)
               /\ lookups[i].layer_id \notin RootIds)
                  => /\ Len(lookups) = i + 1
                     /\ lookups[i + 1].layer_id \in RootIds
                     /\ lookups[i + 1].clause = None

\* C6: every query matches on exactly the entity id it was called with (0
\* included, null only for no entity), and a miss with an entity id present
\* (0 included) goes on to the default layer.
C6_ExactEntityMatching ==
    /\ \A i \in 1..Len(lookups) : lookups[i].clause = lookups[i].entity_id
    /\ (pc = "done" /\ result # None)
          => result[1].entity_id = lookups[Len(lookups)].entity_id
    /\ (pc = "done" /\ result = None /\ lookups[Len(lookups)].entity_id # None)
          => \E i \in 1..Len(layerReads) : layerReads[i] = "default"

\* C7: a call makes at most len(ancestors) + 2 invocations, every invocation
\* has a next step, and the default-layer invocation is the last one.
C7_BoundedInvocations ==
    /\ calls <= Len(req.parent_ids) + 2
    /\ pc = "call" => ENABLED GetSetting
    /\ \A i \in 1..Len(lookups) :
          lookups[i].via = "default" => (i = Len(lookups) /\ pc = "done")

C7_Witness ==
    /\ pc = "done"
    /\ Len(req.parent_ids) = 2
    /\ calls = 4
    /\ lookups[4].via = "default"

\* C8: a call that asked for the root layer returns normally only if exactly
\* one layer has no fallback (otherwise it ends with ConfigurationError).
C8_RootConfigurationChecked ==
    (pc = "done" /\ \E i \in 1..Len(layerReads) : layerReads[i] = "default")
        => UniqueRoot

\* C9: a call that returns normally has taken at most (number of layers)
\* fallback steps and has visited no layer twice on the fallback chain
\* (going around a cycle ends with ConfigurationError).
C9_CycleDetected ==
    pc = "done"
        => /\ Cardinality({i \in 1..Len(lookups) : lookups[i].via = "fallback"})
                <= Cardinality(layers)
           /\ \A i, j \in 1..Len(lookups) :
                 (i < j /\ lookups[i].via # "default" /\ lookups[j].via = "fallback")
                     => lookups[i].layer_id # lookups[j].layer_id

\* C10: no step of a call creates, updates or deletes a Layer or a setting
\* row: from the call to the return the tables stay as they were.
C10_ReadOnly ==
    [][(pc # "idle" \/ pc' # "idle")
          => (layers' = layers /\ settings' = settings)]_vars

C10_Witness ==
    /\ pc = "done"
    /\ calls = 4
    /\ result # None
    /\ \E i \in 1..Len(layerReads) : layerReads[i] = "by_id"

\* C11: a call repeated with the same arguments against unchanged tables
\* returns what the first one returned, whichever row first() picks.
C11_Idempotent ==
    (pc = "done" /\ prev.made /\ prev.req = req) => result = prev.result

\* The chain of the request ends in the one layer without fallback, every
\* layer on it is in the table and none is met twice.
ChainToRoot ==
    /\ UniqueRoot
    /\ AcyclicChain
    /\ \A i \in 1..Len(RequestChain) : LayerExists(RequestChain[i])
    /\ RequestChain[Len(RequestChain)] \in RootIds

\* The queries as made: the layer and the entity clause.
QueriesMade ==
    [i \in 1..Len(lookups) |->
        [layer_id |-> lookups[i].layer_id, entity_id |-> lookups[i].clause]]

\* (L0, entity_id), then (L1, p), (L2, p), ..., (root, p), then (root, null);
\* with no parent id (L0, entity_id), then (root, null).
QueriesExpected ==
    <<[layer_id |-> req.layer_id, entity_id |-> req.entity_id]>>
    \o (IF req.parent_id = None THEN << >>
        ELSE [k \in 1..(Len(RequestChain) - 1) |->
                 [layer_id |-> RequestChain[k + 1], entity_id |-> req.parent_id]])
    \o <<[layer_id |-> RequestChain[Len(RequestChain)], entity_id |-> None]>>

\* C12: over an acyclic chain to the root, _get_setting called with a parent
\* id (or with none and an entity present) makes the queries (L0, entity_id),
\* (L1, p), ..., (root, p), (root, null) in that order, stops at the first
\* that finds a row, which it returns, and returns None after the last.
C12_ParentResupplied ==
    (/\ pc = "done"
     /\ ChainToRoot
     /\ req.parent_id # None \/ req.entity_id # None)
        => /\ Len(QueriesMade) <= Len(QueriesExpected)
           /\ \A i \in 1..Len(QueriesMade) : QueriesMade[i] = QueriesExpected[i]
           /\ result = None => Len(QueriesMade) = Len(QueriesExpected)
           /\ result # None =>
                 result[1] \in ExactRows(req.name,
                                         QueriesMade[Len(QueriesMade)].layer_id,
                                         QueriesMade[Len(QueriesMade)].entity_id)

\* C13: when the body of the with block or the commit raises, the session is
\* rolled back, nothing of the block is committed and the with statement
\* does not raise; commit is called only after the body completed with
\* auto_commit true, and never with auto_commit false.
C13_ErrorPathSuppressed ==
    /\ (session.at = "closed" /\ session.raised # "none")
          => /\ session.rollbacks = 1
             /\ session.committed = session.entry
             /\ <<layers, settings>> = session.committed
             /\ ~session.propagated
    /\ session.commits > 0
          => /\ session.auto_commit
             /\ session.raised # "body"
             /\ session.at \in {"except", "closed"}
             /\ session.commits = 1
    /\ ~session.auto_commit => session.commits = 0
    /\ (session.at = "closed" /\ session.raised = "none" /\ session.auto_commit)
          => session.commits = 1 /\ session.committed = <<layers, settings>>

\* A block whose commit raised was left with its pending writes discarded,
\* after a block that committed rows.
C13_Witness ==
    /\ session.at = "closed"
    /\ session.raised = "commit"
    /\ session.discarded
    /\ session.rollbacks = 1
    /\ session.committed # <<{}, {}>>

====
